---- MODULE Spec2Model ----
(***************************************************************************)
(* Model of the APBA control driver (src/apba.c): the power / flash        *)
(* controller, the firmware flash pipeline and the request / acknowledge   *)
(* protocol.  Every function of the driver that blocks or calls into a     *)
(* collaborator is cut into the statements at which another context can    *)
(* run: the driver takes no lock around its power state, so the contexts   *)
(* (sysfs writers, the slave-control notifier, the delayed work, the UART  *)
(* receive path) interleave at those points.                               *)
(***************************************************************************)
EXTENDS Integers, Sequences, FiniteSets, TLC

(* ------------------------------ bounds --------------------------------- *)
\* pages of the storage partition
PartPages == 2
\* distinct contents a programmed page can have
MaxByte == 1
\* clock references the model lets enable() pile up
MaxClk == 2
\* bytes of an image's trailing partial page
TailLen == 1
\* calls the contexts make in a run in which they interleave
MaxCalls == 2
\* bytes of a short log
LogBytes == 10
\* pins the device tree gives the controller where the pins are not at issue
ProbedGpios == 2
\* triples in a pin sequence
MaxTriples == 2

(* ------------------------- program constants --------------------------- *)
PAGE_SIZE == 4096
ENODEV == 19
EINVAL == 22
EIO == 5
EAGAIN == 11

\* the execution contexts that call into the driver
Callers == {"u1", "u2"}
\* the workqueue context that runs the delayed disable
Worker == "kw"
Threads == Callers \cup {Worker}

\* partitions the storage collaborator knows, and the names a caller passes
Partitions == {"apba"}
PartNames == {"apba", "nope"}

\* the baud rates of the transport, the first the one it starts with
Bauds == {1, 2}
\* the length of the buffer a sysfs write hands over
Counts == {2}

\* the errors the collaborators report: the clock, _erase, _write
ClkErrs == {-EINVAL}
EraseErrs == {-EIO}
WriteErrs == {-28}

\* a firmware image: whole pages of content, then TailLen more bytes or none
Images == {f \in [pages : UNION {[1..n -> 1..MaxByte] : n \in 0..PartPages},
                  tail : 0..1] :
             /\ Len(f.pages) + f.tail >= 1
             /\ Len(f.pages) + f.tail <= PartPages}
NoFw == [pages |-> <<>>, tail |-> 0]
FwSize(f) == Len(f.pages) * PAGE_SIZE + f.tail * TailLen
MtdSize == PartPages * PAGE_SIZE
\* content of a page: 0 erased, 1..MaxByte programmed, MaxByte+1 partly programmed
Erased == [i \in 1..PartPages |-> 0]
PageVals == 0..(MaxByte + 1)

VARIABLES
  desired_on,           \* ctrl->desired_on
  mode,                 \* ctrl->mode
  flash_dev_populated,  \* ctrl->flash_dev_populated
  master_intf,          \* ctrl->master_intf
  mods_uart,            \* ctrl->mods_uart is set
  clk,                  \* enable count of ctrl->mclk
  bus_vote,             \* last mods_ext_bus_vote()
  powered,              \* the enable sequence was the last of enable/disable run
  uart_open,            \* the transport is open
  uart_pm,              \* mods_uart_pm_on state
  pinctrl,              \* pin-control state selected
  spi_flash,            \* muc_register_spi_flash() without deregister
  flash_pins,           \* the flash-start sequence was the last of start/end run
  part,                 \* content of the partition
  work_pending,         \* apba_disable_work is queued
  has_active,           \* the optional spi_active pin-control state exists
  gpio_cnt,             \* ctrl->gpio_cnt: the entries of ctrl->gpios[] probe filled
  comp,                 \* ctrl->comp.done: log completions not yet consumed
  baud_comp,            \* ctrl->baud_comp.done
  mode_comp,            \* ctrl->mode_comp.done
  baud,                 \* the transport's baud rate
  tx_locked,            \* mods_uart_lock_tx() state
  fifo,                 \* apba_log_fifo, as runs <<message, offset, bytes>>
  ncalls,               \* calls made so far (counted where calls interleave)
  rx,                   \* apba_handle_message: the last message and its calls
  th                    \* per context: position, arguments, locals, calls made

protoVars == <<comp, baud_comp, mode_comp, baud, tx_locked, fifo>>
shared == <<desired_on, mode, flash_dev_populated, master_intf, mods_uart, clk,
            bus_vote, powered, uart_open, uart_pm, pinctrl, spi_flash,
            flash_pins, part, work_pending, has_active, gpio_cnt, protoVars>>
vars == <<shared, ncalls, rx, th>>

\* a call into a collaborator: name, two arguments, result
Ev(name, a, b, rc) == <<name, a, b, rc>>
E(name) == <<name, 0, 0, 0>>

\* pend: the completions that were pending when the request was sent;
\* out: the bytes a log read was given; seq: the sequence apba_seq() runs
Idle == [pc |-> "idle", op |-> "none", name |-> "", arg |-> "", fw |-> NoFw,
         val |-> 0, cnt |-> 0, err |-> 0, cmp |-> 1, ret |-> 0, d0 |-> 0,
         same |-> FALSE, pend |-> 0, out |-> <<>>, seq |-> <<>>, ev |-> <<>>]

\* no message handled yet
NoMsg == [type |-> "NONE", len |-> 0, size |-> 0, tag |-> 0, reason |-> 0,
          baud |-> 0, accepted |-> 0]
NoRx == [msg |-> NoMsg, n |-> 0, ev |-> <<>>]

\* init_completion() of the three completions, the empty kfifo, and the
\* transport as its own probe leaves it
ProtoInit ==
  /\ comp = 0
  /\ baud_comp = 0
  /\ mode_comp = 0
  /\ baud = 1
  /\ tx_locked = FALSE
  /\ fifo = <<>>

\* apba_ctrl_probe(), but for the pins the device tree gives it
InitCtrl ==
  /\ desired_on = 0
  /\ mode = 0
  /\ flash_dev_populated = FALSE
  /\ master_intf = 0
  /\ mods_uart = FALSE
  /\ clk = 0
  /\ bus_vote = FALSE
  /\ powered = FALSE
  /\ uart_open = FALSE
  /\ uart_pm = FALSE
  /\ pinctrl = "default"
  /\ spi_flash = FALSE
  /\ flash_pins = FALSE
  /\ part \in [1..PartPages -> 0..MaxByte]
  /\ work_pending = FALSE
  /\ has_active \in BOOLEAN
  /\ ProtoInit
  /\ ncalls = 0
  /\ rx = NoRx
  /\ th = [t \in Threads |-> Idle]

Init == InitCtrl /\ gpio_cnt = ProbedGpios

At(t, l) == th[t].pc = l
Quiet == \A u \in Threads : th[u].pc = "idle"

(* --------------------- bookkeeping of a context ------------------------ *)
\* the context moves to label l, having made the calls es
Go(t, l, es) == th' = [th EXCEPT ![t].pc = l, ![t].ev = @ \o es]
\* the function returns r, having made the calls es
Done(t, r, es) == th' = [th EXCEPT ![t].pc = "done", ![t].ret = r, ![t].ev = @ \o es]
\* a context enters operation o at label l
Enter(t, o, l) ==
  [Idle EXCEPT !.pc = l, !.op = o,
               !.d0 = IF o \in {"flash", "erase"} THEN desired_on ELSE 0]

powerVars == <<bus_vote, powered, uart_open, uart_pm, mode>>
flashVars == <<pinctrl, flash_pins, spi_flash, flash_dev_populated>>
cfgVars == <<mods_uart, has_active, gpio_cnt>>

\* what a statement leaves alone
KeepButTh == UNCHANGED <<shared, ncalls, rx>>
KeepButClk ==
  UNCHANGED <<ncalls, rx, desired_on, master_intf, part, work_pending, cfgVars, powerVars, flashVars,
              protoVars>>
KeepButDesired ==
  UNCHANGED <<ncalls, rx, clk, master_intf, part, work_pending, cfgVars, powerVars, flashVars,
              protoVars>>
KeepButPower ==
  UNCHANGED <<ncalls, rx, desired_on, clk, master_intf, part, work_pending, cfgVars, flashVars,
              protoVars>>
KeepButFlash ==
  UNCHANGED <<ncalls, rx, desired_on, clk, master_intf, part, work_pending, cfgVars, powerVars,
              protoVars>>
KeepButPart ==
  UNCHANGED <<ncalls, rx, desired_on, clk, master_intf, work_pending, cfgVars, powerVars, flashVars,
              protoVars>>
KeepButIntf ==
  UNCHANGED <<ncalls, rx, desired_on, clk, part, work_pending, cfgVars, powerVars, flashVars,
              protoVars>>
KeepButProto ==
  UNCHANGED <<ncalls, rx, desired_on, clk, master_intf, part, work_pending, cfgVars, powerVars,
              flashVars>>
KeepButMode ==
  UNCHANGED <<ncalls, rx, desired_on, clk, master_intf, part, work_pending, cfgVars, flashVars,
              protoVars, bus_vote, powered, uart_open, uart_pm>>
KeepButWork ==
  UNCHANGED <<ncalls, rx, desired_on, clk, master_intf, part, cfgVars, powerVars, flashVars,
              protoVars>>

(* ------------------------------ apba_on -------------------------------- *)
\* a power-off that closes the transport before it runs the disable sequence
ApbaOnClosesFirst(on) ==
  IF on
    THEN <<E("vote_on")>> \o (IF mods_uart THEN <<E("uart_open")>> ELSE <<>>)
         \o <<E("seq_enable")>> \o (IF mods_uart THEN <<E("pm_on")>> ELSE <<>>)
    ELSE (IF mods_uart THEN <<E("pm_off"), E("uart_close")>> ELSE <<>>)
         \o <<E("vote_off"), E("seq_disable")>>

ApbaOnEvents(on) ==
  IF on
    THEN <<E("vote_on")>> \o (IF mods_uart THEN <<E("uart_open")>> ELSE <<>>)
         \o <<E("seq_enable")>> \o (IF mods_uart THEN <<E("pm_on")>> ELSE <<>>)
    ELSE <<E("vote_off"), E("seq_disable")>>
         \o (IF mods_uart THEN <<E("pm_off"), E("uart_close")>> ELSE <<>>)

ApbaOn(on) ==
  /\ bus_vote' = on
  /\ powered' = on
  /\ uart_open' = IF mods_uart THEN on ELSE uart_open
  /\ uart_pm' = IF mods_uart THEN on ELSE uart_pm
  /\ mode' = IF on THEN mode ELSE 0

(* ---------------------------- apba_flash_on ---------------------------- *)
FlashOnEvents(on, populated) ==
  IF on
    THEN (IF has_active THEN <<E("pinctrl_active")>> ELSE <<>>)
         \o <<E("seq_flash_start"), E("spi_register"), E("populate")>>
    ELSE (IF populated THEN <<E("depopulate")>> ELSE <<>>)
         \o <<E("seq_flash_end"), E("spi_deregister"), E("pinctrl_default")>>

\* a flash-off that leaves the child device flag as it was
FlashOnStays(on) ==
  IF on
    THEN /\ pinctrl' = IF has_active THEN "active" ELSE pinctrl
         /\ flash_pins' = TRUE
         /\ spi_flash' = TRUE
         /\ flash_dev_populated' \in {TRUE, flash_dev_populated}
    ELSE /\ flash_dev_populated' = flash_dev_populated
         /\ flash_pins' = FALSE
         /\ spi_flash' = FALSE
         /\ pinctrl' = "default"

FlashOn(on) ==
  IF on
    THEN /\ pinctrl' = IF has_active THEN "active" ELSE pinctrl
         /\ flash_pins' = TRUE
         /\ spi_flash' = TRUE
         \* of_platform_device_create() may fail: the flag is then left alone
         /\ flash_dev_populated' \in {TRUE, flash_dev_populated}
    ELSE /\ flash_dev_populated' = FALSE
         /\ flash_pins' = FALSE
         /\ spi_flash' = FALSE
         /\ pinctrl' = "default"

\* how a specification lets calls start: "race" counts them and lets them overlap,
\* "serial" starts one only when no other is in progress
Gate(h) ==
  IF h = "race"
    THEN ncalls < MaxCalls /\ ncalls' = ncalls + 1 /\ UNCHANGED rx
    ELSE Quiet /\ UNCHANGED <<ncalls, rx>>

(* ------------------------ apba_enable / disable ------------------------ *)
\* the number of enable() calls that have not yet taken their clock reference
ClkWanted == Cardinality({u \in Threads : th[u].pc = "e_clk"})

CallEnable(t, h) ==
  /\ At(t, "idle") /\ t \in Callers
  /\ clk + ClkWanted < MaxClk
  /\ th' = [th EXCEPT ![t] = Enter(t, "enable", "e_clk")]
  /\ UNCHANGED shared
  /\ Gate(h)

\* a failure path that records the intent before it returns
EnableClkFailSets(t, rc) ==
  /\ desired_on' = 1
  /\ Done(t, rc, <<Ev("clk_enable", 0, 0, rc)>>)
  /\ KeepButDesired

\* if (ret) { dev_err(...); return ret; }
EnableClkFail(t, rc) ==
  /\ Done(t, rc, <<Ev("clk_enable", 0, 0, rc)>>)
  /\ KeepButTh

\* clk_prepare_enable(), and the return of its error
EnableClk(t) ==
  /\ At(t, "e_clk")
  /\ \/ \E rc \in ClkErrs : EnableClkFail(t, rc)
     \/ /\ clk' = clk + 1
        /\ Go(t, "e_set", <<Ev("clk_enable", 0, 0, 0)>>)
        /\ KeepButClk

EnableSet(t) ==
  /\ At(t, "e_set")
  /\ desired_on' = 1
  /\ Go(t, "e_on", <<>>)
  /\ KeepButDesired

EnableOn(t) ==
  /\ At(t, "e_on")
  /\ ApbaOn(TRUE)
  /\ Done(t, 0, ApbaOnEvents(TRUE))
  /\ KeepButPower

CallDisable(t, h) ==
  /\ At(t, "idle") /\ t \in Callers
  /\ th' = [th EXCEPT ![t] = Enter(t, "disable", "d_chk")]
  /\ UNCHANGED shared
  /\ Gate(h)

\* a disable() without its guard
DisableNeverSkips == FALSE

\* the guard of apba_disable()
DisableSkips == desired_on = 0

\* the guard, then mods_slave_ctrl_power(POWER_OFF)
DisableChk(t) ==
  /\ At(t, "d_chk")
  /\ IF DisableSkips
       THEN Done(t, 0, <<>>)
       ELSE Go(t, "d_clr", <<E("apbe_off")>>)
  /\ KeepButTh

\* desired_on = 0, written down as it is made, then mod_attach(0)
DisableClr(t) ==
  /\ At(t, "d_clr")
  /\ desired_on' = 0
  /\ Go(t, "d_clk", <<Ev("desired_on", 0, 0, 0)>>
                      \o (IF mods_uart THEN <<E("mod_detach")>> ELSE <<>>))
  /\ KeepButDesired

\* clk_disable_unprepare(): the clock framework leaves a count of 0 at 0
DisableClk(t) ==
  /\ At(t, "d_clk")
  /\ clk' = IF clk > 0 THEN clk - 1 ELSE 0
  /\ Go(t, "d_off", <<Ev("clk_disable", 0, 0, 0)>>)
  /\ KeepButClk

DisableOff(t) ==
  /\ At(t, "d_off")
  /\ ApbaOn(FALSE)
  /\ Done(t, 0, ApbaOnEvents(FALSE))
  /\ KeepButPower

(* ------------------- apba_slave_notify, the delayed work ---------------- *)
MasterIntfs == {1}
SlaveMasks == {"apbe", "other"}
SlaveStates == {"disabled", "enabled", "invalid"}

CallNotify(t, intf, mask, state, h) ==
  /\ At(t, "idle") /\ t \in Callers
  /\ state = "enabled" => clk + ClkWanted < MaxClk
  /\ th' = [th EXCEPT ![t] = [Enter(t, "notify", "n_chk") EXCEPT
                                 !.val = intf, !.name = mask, !.arg = state]]
  /\ UNCHANGED shared
  /\ Gate(h)

\* the mask test, ctrl->master_intf = master_intf, and the switch on the state
NotifyChk(t) ==
  /\ At(t, "n_chk")
  /\ IF th[t].name # "apbe"
       THEN Done(t, 0, <<>>) /\ KeepButTh
       ELSE /\ master_intf' = th[t].val
            /\ KeepButIntf
            /\ CASE th[t].arg = "disabled" -> Go(t, "n_sched", <<>>)
                 [] th[t].arg = "enabled" -> Go(t, "e_clk", <<>>)
                 [] OTHER -> Done(t, 0, <<>>)

\* a DISABLED notification that calls apba_disable() itself
NotifyDisables(t) ==
  /\ At(t, "n_sched")
  /\ Go(t, "d_chk", <<>>)
  /\ KeepButTh

\* schedule_delayed_work(&apba_disable_work, HZ): queued unless already queued
NotifySched(t) ==
  /\ At(t, "n_sched")
  /\ work_pending' = TRUE
  /\ Done(t, 0, <<E("schedule_disable")>>)
  /\ KeepButWork

\* the delay has passed: apba_disable_work_func() calls apba_disable()
\* ("after": once the notifier has returned, its record kept)
WorkRun(h) ==
  /\ At(Worker, "idle")
  /\ h = "serial" => Quiet
  /\ h = "after" => \A u \in Callers : th[u].pc \in {"idle", "done"}
  /\ work_pending
  /\ work_pending' = FALSE
  /\ th' = [th EXCEPT ![Worker] = Enter(Worker, "work", "d_chk")]
  /\ KeepButWork

\* apba_uart_register()
UartRegister ==
  /\ ~mods_uart
  /\ mods_uart' = TRUE
  /\ UNCHANGED <<desired_on, clk, master_intf, part, work_pending, has_active, gpio_cnt,
                 powerVars, flashVars, protoVars, ncalls, rx, th>>

\* the caller has its result; the context is free for the next call
Retire(t) ==
  /\ At(t, "done")
  /\ th' = [th EXCEPT ![t] = Idle]
  /\ KeepButTh

(* ----------------------- the storage collaborator ---------------------- *)
\* a lookup that finds a device under every name
MtdAny(name) == TRUE

\* apba_init_mtd_module(): the device of that name, or NULL
MtdFound(name) == name \in Partitions

\* programming a page: only an erased page takes the new content as it is
PageWrite(old, new) ==
  IF old = 0 THEN new ELSE IF old = new THEN old ELSE MaxByte + 1

\* _erase(start, len): the pages that lie within the extent are erased
MtdErase(p, start, len) ==
  [i \in 1..PartPages |->
     IF (i - 1) * PAGE_SIZE >= start /\ i * PAGE_SIZE <= start + len
       THEN 0 ELSE p[i]]

\* _write(0, f): the first k whole pages of f, and its tail if withTail
MtdWrite(p, f, k, withTail) ==
  [i \in 1..PartPages |->
     IF i <= k THEN PageWrite(p[i], f.pages[i])
     ELSE IF i = k + 1 /\ withTail THEN PageWrite(p[i], MaxByte + 1)
     ELSE p[i]]

\* what _read(0, PAGE_SIZE) and the kmalloc before it can come to
ReadOutcomes == {"nomem", "err", "short", "full"}

\* a compare that always reports a difference
CompareAlwaysDiffers(o, p, f) == {1}

\* apba_compare_partition(): 0 only for a full page read that equals the
\* image's first page; memcmp over an image shorter than a page reads past it
CompareResults(o, p, f) ==
  IF o # "full" THEN {1}
  ELSE IF Len(f.pages) >= 1 THEN {IF p[1] = f.pages[1] THEN 0 ELSE 1}
  ELSE {0, 1}

CompareEvents(o) ==
  CASE o = "nomem" -> <<Ev("kmalloc", PAGE_SIZE, 0, -12)>>
    [] o = "err" -> <<Ev("read", 0, PAGE_SIZE, -EIO)>>
    [] o = "short" -> <<Ev("read", 0, PAGE_SIZE, 0)>>
    [] OTHER -> <<Ev("read", 0, PAGE_SIZE, PAGE_SIZE)>>

\* the image's first page is the partition's first page
FirstPageSame(p, f) == Len(f.pages) >= 1 /\ p[1] = f.pages[1]

(* ------------- apba_flash_partition / apba_erase_partition ------------- *)
CallFlash(t, name, f, h) ==
  /\ At(t, "idle") /\ t \in Callers
  /\ th' = [th EXCEPT ![t] = [Enter(t, "flash", "f_off") EXCEPT
                                 !.name = name, !.fw = f]]
  /\ UNCHANGED shared
  /\ Gate(h)

CallErase(t, name, h) ==
  /\ At(t, "idle") /\ t \in Callers
  /\ th' = [th EXCEPT ![t] = [Enter(t, "erase", "f_off") EXCEPT !.name = name]]
  /\ UNCHANGED shared
  /\ Gate(h)

\* apba_on(ctrl, false)
FlashOff(t) ==
  /\ At(t, "f_off")
  /\ ApbaOn(FALSE)
  /\ Go(t, "f_fon", ApbaOnEvents(FALSE))
  /\ KeepButPower

\* apba_flash_on(ctrl, true)
FlashEnter(t) ==
  /\ At(t, "f_fon")
  /\ FlashOn(TRUE)
  /\ Go(t, "f_mtd", FlashOnEvents(TRUE, flash_dev_populated))
  /\ KeepButFlash

\* apba_init_mtd_module(partition)
FlashMtd(t) ==
  /\ At(t, "f_mtd")
  /\ IF MtdFound(th[t].name)
       THEN Go(t, IF th[t].op = "flash" THEN "f_cmp" ELSE "f_erase",
               <<E("get_mtd")>>)
       ELSE th' = [th EXCEPT ![t].pc = "f_foff", ![t].err = -ENODEV]
  /\ KeepButTh

\* apba_compare_partition(), and the skip when it returns 0
FlashCompare(t) ==
  /\ At(t, "f_cmp")
  /\ \E o \in ReadOutcomes : \E c \in CompareResults(o, part, th[t].fw) :
       th' = [th EXCEPT ![t].pc = IF c = 0 THEN "f_put" ELSE "f_erase",
                        ![t].err = IF c = 0 THEN 0 ELSE @,
                        ![t].cmp = c,
                        ![t].same = FirstPageSame(part, th[t].fw),
                        ![t].ev = @ \o CompareEvents(o)]
  /\ KeepButTh

\* an erase of the first page only
EraseOnePage == PAGE_SIZE

\* the extent apba_mtd_erase() is called with
EraseStart == 0
EraseLen == MtdSize

\* apba_mtd_erase(mtd_info, 0, mtd_info->size)
FlashErase(t) ==
  /\ At(t, "f_erase")
  /\ \/ /\ part' = MtdErase(part, EraseStart, EraseLen)
        /\ th' = [th EXCEPT ![t].pc = IF th[t].op = "flash" THEN "f_write" ELSE "f_put",
                            ![t].err = 0,
                            ![t].ev = @ \o <<Ev("erase", EraseStart, EraseLen, 0)>>]
     \/ \E rc \in EraseErrs : \E k \in 0..(PartPages - 1) :
          /\ part' = MtdErase(part, EraseStart, k * PAGE_SIZE)
          /\ th' = [th EXCEPT ![t].pc = "f_put", ![t].err = rc,
                              ![t].ev = @ \o <<Ev("erase", EraseStart, EraseLen, rc)>>]
  /\ KeepButPart

\* err = mtd_info->_write(mtd_info, 0, fw->size, &retlen, fw->data)
FlashWrite(t) ==
  /\ At(t, "f_write")
  /\ LET f == th[t].fw IN
     \/ /\ part' = MtdWrite(part, f, Len(f.pages), f.tail = 1)
        /\ th' = [th EXCEPT ![t].pc = "f_put", ![t].err = 0,
                            ![t].ev = @ \o <<Ev("write", 0, FwSize(f), 0)>>]
     \/ \E rc \in WriteErrs : \E k \in 0..Len(f.pages) :
          /\ k < Len(f.pages) + f.tail
          /\ part' = MtdWrite(part, f, k, FALSE)
          /\ th' = [th EXCEPT ![t].pc = "f_put", ![t].err = rc,
                              ![t].ev = @ \o <<Ev("write", 0, FwSize(f), rc)>>]
  /\ KeepButPart

\* cleanup: put_mtd_device(mtd_info)
FlashPut(t) ==
  /\ At(t, "f_put")
  /\ Go(t, "f_foff", <<E("put_mtd")>>)
  /\ KeepButTh

\* no_mtd: apba_flash_on(ctrl, false)
FlashLeave(t) ==
  /\ At(t, "f_foff")
  /\ FlashOn(FALSE)
  /\ Go(t, "f_chk", FlashOnEvents(FALSE, flash_dev_populated))
  /\ KeepButFlash

\* a pipeline that never turns the APBA on again
RestoreNever == FALSE

\* the test that decides whether the APBA is turned on again
RestoreWanted == desired_on # 0

\* if (ctrl->desired_on)
FlashChk(t) ==
  /\ At(t, "f_chk")
  /\ IF RestoreWanted THEN Go(t, "f_on", <<>>) ELSE Done(t, th[t].err, <<>>)
  /\ KeepButTh

\* apba_on(ctrl, true); return err
FlashRestore(t) ==
  /\ At(t, "f_on")
  /\ ApbaOn(TRUE)
  /\ Done(t, th[t].err, ApbaOnEvents(TRUE))
  /\ KeepButPower

(* -------------------------- flash_enable_store -------------------------- *)
CallFlashEnable(t, v, h) ==
  /\ At(t, "idle") /\ t \in Callers
  /\ th' = [th EXCEPT ![t] = [Enter(t, "flash_enable", "fe") EXCEPT !.val = v]]
  /\ UNCHANGED shared
  /\ Gate(h)

\* apba_flash_on(g_ctrl, val ? true : false)
FlashEnableSet(t) ==
  /\ At(t, "fe")
  /\ FlashOn(th[t].val = 1)
  /\ Done(t, 0, FlashOnEvents(th[t].val = 1, flash_dev_populated))
  /\ KeepButFlash

(* ---------------------- requests and their waits ---------------------- *)
\* completions the model lets pile up unconsumed
MaxDone == 1

\* bytes in the log fifo
RECURSIVE RunsLen(_)
RunsLen(q) == IF q = <<>> THEN 0 ELSE Head(q)[3] + RunsLen(Tail(q))
\* kfifo_out(n) on the runs: the fifo without its first n bytes
RECURSIVE RunsDrop(_, _)
RunsDrop(q, n) ==
  IF n = 0 \/ q = <<>> THEN q
  ELSE IF Head(q)[3] <= n THEN RunsDrop(Tail(q), n - Head(q)[3])
  ELSE <<<<Head(q)[1], Head(q)[2] + n, Head(q)[3] - n>>>> \o Tail(q)
\* the first n bytes of the fifo, as kfifo_out(n) copies them out
RECURSIVE RunsTake(_, _)
RunsTake(q, n) ==
  IF n = 0 \/ q = <<>> THEN <<>>
  ELSE IF Head(q)[3] <= n THEN <<Head(q)>> \o RunsTake(Tail(q), n - Head(q)[3])
  ELSE <<<<Head(q)[1], Head(q)[2], n>>>>

\* mods_uart_apba_send(): 0, or the transport's error
SendResults == {0, -EIO}

CallMode(t, v, c, h) ==
  /\ At(t, "idle") /\ t \in Callers
  /\ th' = [th EXCEPT ![t] = [Enter(t, "mode", "m_send") EXCEPT !.val = v, !.cnt = c]]
  /\ UNCHANGED shared
  /\ Gate(h)

\* what apba_mode_store() returns when the wait for the echo timed out
ModeTimeoutRet(t) == th[t].cnt

\* the mods_uart test, then mods_uart_apba_send() of the MODE_REQUEST
ModeSend(t) ==
  /\ At(t, "m_send")
  /\ IF ~mods_uart THEN Done(t, 0, <<>>)
     ELSE \E rc \in SendResults :
            IF rc # 0
              THEN Done(t, th[t].cnt, <<Ev("send_mode", th[t].val % 256, 0, rc)>>)
              ELSE th' = [th EXCEPT ![t].pc = "m_wait", ![t].pend = mode_comp,
                                    ![t].ev = @ \o <<Ev("send_mode", th[t].val % 256, 0, 0)>>]
  /\ KeepButTh

\* wait_for_completion_timeout(&mode_comp): a completion already signalled
\* is consumed at once; the timeout passes only while there is none
ModeWait(t) ==
  /\ At(t, "m_wait")
  /\ IF mode_comp > 0
       THEN /\ mode_comp' = mode_comp - 1
            /\ Go(t, "m_set", <<Ev("wait_mode", 0, 0, 1)>>)
       ELSE /\ mode_comp' = mode_comp
            /\ Done(t, ModeTimeoutRet(t), <<Ev("wait_mode", 0, 0, 0)>>)
  /\ UNCHANGED <<comp, baud_comp, baud, tx_locked, fifo>>
  /\ KeepButProto

\* g_ctrl->mode = val
ModeSet(t) ==
  /\ At(t, "m_set")
  /\ mode' = th[t].val % 256
  /\ Done(t, th[t].cnt, <<>>)
  /\ KeepButMode

CallBaud(t, v, c, h) ==
  /\ At(t, "idle") /\ t \in Callers
  /\ th' = [th EXCEPT ![t] = [Enter(t, "baud", "b_send") EXCEPT !.val = v, !.cnt = c]]
  /\ UNCHANGED shared
  /\ Gate(h)

BaudSend(t) ==
  /\ At(t, "b_send")
  /\ IF ~mods_uart THEN Done(t, -ENODEV, <<>>)
     ELSE \E rc \in SendResults :
            IF rc # 0
              THEN Done(t, -EIO, <<Ev("send_baud", th[t].val, 0, rc)>>)
              ELSE th' = [th EXCEPT ![t].pc = "b_lock", ![t].pend = baud_comp,
                                    ![t].ev = @ \o <<Ev("send_baud", th[t].val, 0, 0)>>]
  /\ KeepButTh

\* mods_uart_lock_tx(true)
BaudLock(t) ==
  /\ At(t, "b_lock")
  /\ tx_locked' = TRUE
  /\ Go(t, "b_wait", <<E("lock_tx")>>)
  /\ UNCHANGED <<comp, baud_comp, mode_comp, baud, fifo>>
  /\ KeepButProto

\* what apba_baud_store() returns when the wait for the ack timed out
BaudTimeoutRet(t) == -EAGAIN

BaudWait(t) ==
  /\ At(t, "b_wait")
  /\ IF baud_comp > 0
       THEN /\ baud_comp' = baud_comp - 1
            /\ th' = [th EXCEPT ![t].pc = "b_unlock", ![t].err = th[t].cnt,
                                ![t].ev = @ \o <<Ev("wait_baud", 0, 0, 1)>>]
       ELSE /\ baud_comp' = baud_comp
            /\ th' = [th EXCEPT ![t].pc = "b_unlock", ![t].err = BaudTimeoutRet(t),
                                ![t].ev = @ \o <<Ev("wait_baud", 0, 0, 0)>>]
  /\ UNCHANGED <<comp, mode_comp, baud, tx_locked, fifo>>
  /\ KeepButProto

\* a return that unlocks only after an ack
BaudUnlockOnAck(t) ==
  /\ At(t, "b_unlock")
  /\ tx_locked' = IF th[t].err = BaudTimeoutRet(t) THEN tx_locked ELSE FALSE
  /\ Done(t, th[t].err,
          IF th[t].err = BaudTimeoutRet(t) THEN <<>> ELSE <<E("unlock_tx")>>)
  /\ UNCHANGED <<comp, baud_comp, mode_comp, baud, fifo>>
  /\ KeepButProto

\* mods_uart_lock_tx(false), on both paths
BaudUnlock(t) ==
  /\ At(t, "b_unlock")
  /\ tx_locked' = FALSE
  /\ Done(t, th[t].err, <<E("unlock_tx")>>)
  /\ UNCHANGED <<comp, baud_comp, mode_comp, baud, fifo>>
  /\ KeepButProto

CallLog(t, h) ==
  /\ At(t, "idle") /\ t \in Callers
  /\ th' = [th EXCEPT ![t] = Enter(t, "log", "l_send")]
  /\ UNCHANGED shared
  /\ Gate(h)

\* mods_uart_apba_send() of the LOG_REQUEST; without a transport it fails
LogSend(t) ==
  /\ At(t, "l_send")
  /\ \E rc \in (IF mods_uart THEN SendResults ELSE {-ENODEV}) :
       IF rc # 0
         THEN Done(t, 0, <<Ev("send_log", 0, 0, rc)>>)
         ELSE th' = [th EXCEPT ![t].pc = "l_wait", ![t].pend = comp,
                               ![t].ev = @ \o <<Ev("send_log", 0, 0, 0)>>]
  /\ KeepButTh

\* what apba_log_show() returns when the wait for the echo timed out
LogTimeoutRet(t) == 0

\* a wait whose timeout still goes on to read the log
LogWaitDrains(t) ==
  /\ At(t, "l_wait")
  /\ IF comp > 0
       THEN /\ comp' = comp - 1
            /\ Go(t, "l_out", <<Ev("wait_log", 0, 0, 1)>>)
       ELSE /\ comp' = comp
            /\ Go(t, "l_out", <<Ev("wait_log", 0, 0, 0)>>)
  /\ UNCHANGED <<baud_comp, mode_comp, baud, tx_locked, fifo>>
  /\ KeepButProto

LogWait(t) ==
  /\ At(t, "l_wait")
  /\ IF comp > 0
       THEN /\ comp' = comp - 1
            /\ Go(t, "l_out", <<Ev("wait_log", 0, 0, 1)>>)
       ELSE /\ comp' = comp
            /\ Done(t, LogTimeoutRet(t), <<Ev("wait_log", 0, 0, 0)>>)
  /\ UNCHANGED <<baud_comp, mode_comp, baud, tx_locked, fifo>>
  /\ KeepButProto

\* a read that takes a whole page
LogReadPage == PAGE_SIZE

\* the bytes one read takes at most: kfifo_out(..., PAGE_SIZE - 1)
LogReadMax == PAGE_SIZE - 1

\* count = kfifo_out(&apba_log_fifo, buf, PAGE_SIZE - 1), under the log mutex
LogOut(t) ==
  /\ At(t, "l_out")
  /\ LET n == IF RunsLen(fifo) < LogReadMax THEN RunsLen(fifo) ELSE LogReadMax IN
       /\ fifo' = RunsDrop(fifo, n)
       /\ th' = [th EXCEPT ![t].pc = "done", ![t].ret = n,
                           ![t].out = RunsTake(fifo, n),
                           ![t].ev = @ \o <<Ev("kfifo_out", LogReadMax, 0, n)>>]
  /\ UNCHANGED <<comp, baud_comp, mode_comp, baud, tx_locked>>
  /\ KeepButProto

(* ------------------------- apba_handle_message ------------------------- *)
\* sizeof(struct apba_ctrl_msg_hdr): type and size, 16 bits each
HdrSize == 4
\* sizeof(struct apba_ctrl_int_reason_resp), sizeof(struct apba_baud_ack)
IntReasonSize == HdrSize + 2
BaudAckSize == HdrSize + 5
\* the capacity of apba_log_fifo, and the most one message carries
APBA_LOG_SIZE == 16384
APBA_MSG_SIZE_MAX == 2048
\* entries of ctrl->gpios[]
APBA_NUM_GPIOS == 8
APBE_RESET_DELAY == 250
APBA_INT_APBE_ON == 1
APBA_INT_APBE_RESET == 2
APBA_INT_APBE_CONNECTED == 3
APBA_INT_APBE_DISCONNECTED == 4

\* LOG_IND messages the model lets the handler take
MaxLogMsgs == 2
\* a size field that no received buffer backs
BigSize == 20000

Min(a, b) == IF a < b THEN a ELSE b

PmTypes == {"PM_WAKE_ACK", "PM_SLEEP_ACK", "PM_SLEEP_IND"}
KnownTypes == {"INT_REASON", "LOG_IND", "LOG_REQUEST", "BAUD_ACK", "MODE_REQUEST"}
                \cup PmTypes

\* a received buffer: len bytes, of which the header gives type and size
Msg(type, len, size, tag, reason, b, accepted) ==
  [type |-> type, len |-> len, size |-> size, tag |-> tag, reason |-> reason,
   baud |-> b, accepted |-> accepted]

KeepButRx ==
  UNCHANGED <<ncalls, th, desired_on, clk, master_intf, part, work_pending, cfgVars,
              powerVars, flashVars>>

\* the handler returns, having made the calls es for message m
Handled(m, es) == rx' = [msg |-> m, n |-> rx.n, ev |-> es]

\* if (len < sizeof(struct apba_ctrl_msg_hdr)) return
RxShort(m) ==
  /\ m.len < HdrSize
  /\ Handled(m, <<>>)
  /\ UNCHANGED protoVars
  /\ KeepButRx

\* a default case that falls into the log echo's
RxUnknownCompletes(m) ==
  /\ m.len >= HdrSize
  /\ m.type \notin KnownTypes
  /\ comp < MaxDone
  /\ comp' = comp + 1
  /\ Handled(m, <<E("complete_log")>>)
  /\ UNCHANGED <<baud_comp, mode_comp, baud, tx_locked, fifo>>
  /\ KeepButRx

\* default: pr_err("Unknown message received")
RxUnknown(m) ==
  /\ m.len >= HdrSize
  /\ m.type \notin KnownTypes
  /\ Handled(m, <<>>)
  /\ UNCHANGED protoVars
  /\ KeepButRx

\* apba_notify_abpe_attach(present): the work is queued unless kzalloc fails
AttachEvents(present, alloc) ==
  IF alloc THEN <<Ev("schedule_attach", present, 0, 0)>> ELSE <<>>

\* a dispatch that notifies before it powers off, and resets on-then-off
IntReasonSwapped(reason, alloc) ==
  IF master_intf = 0 THEN <<>>
  ELSE CASE reason = APBA_INT_APBE_ON -> <<E("apbe_on")>>
         [] reason = APBA_INT_APBE_RESET ->
              <<E("apbe_on"), Ev("msleep", APBE_RESET_DELAY, 0, 0), E("apbe_off")>>
         [] reason = APBA_INT_APBE_CONNECTED -> AttachEvents(1, alloc)
         [] reason = APBA_INT_APBE_DISCONNECTED ->
              AttachEvents(0, alloc) \o <<E("apbe_off")>>
         [] OTHER -> <<>>

\* apba_action_on_int_reason(reason)
IntReasonEvents(reason, alloc) ==
  IF master_intf = 0 THEN <<>>
  ELSE CASE reason = APBA_INT_APBE_ON -> <<E("apbe_on")>>
         [] reason = APBA_INT_APBE_RESET ->
              <<E("apbe_off"), Ev("msleep", APBE_RESET_DELAY, 0, 0), E("apbe_on")>>
         [] reason = APBA_INT_APBE_CONNECTED -> AttachEvents(1, alloc)
         [] reason = APBA_INT_APBE_DISCONNECTED ->
              <<E("apbe_off")>> \o AttachEvents(0, alloc)
         [] OTHER -> <<>>

\* case APBA_CTRL_INT_REASON: the reason is read only from a buffer that has it
RxIntReason(m) ==
  /\ m.len >= HdrSize
  /\ m.type = "INT_REASON"
  /\ \E alloc \in BOOLEAN :
       Handled(m, IF m.len >= IntReasonSize
                    THEN IntReasonEvents(m.reason, alloc) ELSE <<>>)
  /\ UNCHANGED protoVars
  /\ KeepButRx

\* case APBA_CTRL_PM_*: mods_uart_pm_handle_events()
RxPm(m) ==
  /\ m.len >= HdrSize
  /\ m.type \in PmTypes
  /\ Handled(m, <<E("pm_handle_events")>>)
  /\ UNCHANGED protoVars
  /\ KeepButRx

\* the runs without the empty ones
RunsOf(q) == SelectSeq(q, LAMBDA r : r[3] > 0)

\* the msg->size bytes at payload + sizeof(*msg): the bytes received, and
\* behind them whatever lies past the end of the buffer (message 0)
PayloadRuns(m) ==
  LET got == IF m.len > HdrSize THEN Min(m.len - HdrSize, m.size) ELSE 0
  IN RunsOf(<<<<m.tag, 0, got>>, <<0, 0, m.size - got>>>>)

\* an append that makes no room
LogEvictNone(q, size) == 0
\* an append that empties the log when it overflows
LogEvictAll(q, size) ==
  IF RunsLen(q) + size - APBA_LOG_SIZE > 0 THEN RunsLen(q) ELSE 0

\* the bytes the handler pops from the front before it appends size bytes
LogEvict(q, size) ==
  LET of == RunsLen(q) + size - APBA_LOG_SIZE
  IN IF of > 0 THEN Min(Min(of, APBA_MSG_SIZE_MAX), RunsLen(q)) ELSE 0

\* kfifo_in(): as many of the bytes as there is room for
KfifoIn(q, runs) == q \o RunsTake(runs, Min(RunsLen(runs), APBA_LOG_SIZE - RunsLen(q)))

\* case APBA_CTRL_LOG_IND, under the log mutex
RxLogInd(m) ==
  /\ m.len >= HdrSize
  /\ m.type = "LOG_IND"
  /\ rx.n < MaxLogMsgs
  /\ LET ev == LogEvict(fifo, m.size) IN
       /\ fifo' = KfifoIn(RunsDrop(fifo, ev), PayloadRuns(m))
       /\ rx' = [msg |-> m, n |-> rx.n + 1,
                 ev |-> (IF ev > 0 THEN <<Ev("kfifo_out", ev, 0, ev)>> ELSE <<>>)
                        \o <<Ev("kfifo_in", m.size, 0, RunsLen(fifo') - RunsLen(fifo) + ev)>>]
  /\ UNCHANGED <<comp, baud_comp, mode_comp, baud, tx_locked>>
  /\ KeepButRx

\* case APBA_CTRL_LOG_REQUEST: complete(&g_ctrl->comp)
RxLogRequest(m) ==
  /\ m.len >= HdrSize
  /\ m.type = "LOG_REQUEST"
  /\ comp < MaxDone
  /\ comp' = comp + 1
  /\ Handled(m, <<E("complete_log")>>)
  /\ UNCHANGED <<baud_comp, mode_comp, baud, tx_locked, fifo>>
  /\ KeepButRx

\* the baud and the accepted flag as the handler reads them: from the buffer
\* if it has them, and otherwise from what lies behind its end
AckBauds(m) == IF m.len >= BaudAckSize THEN {m.baud} ELSE Bauds
AckFlags(m) == IF m.len >= BaudAckSize THEN {m.accepted} ELSE {0, 1}

\* an ack handler that takes the baud whatever the flag says
RxBaudAckAlways(m) ==
  /\ m.len >= HdrSize
  /\ m.type = "BAUD_ACK"
  /\ baud_comp < MaxDone
  /\ \E b \in AckBauds(m) :
       /\ baud' = b
       /\ Handled(m, <<Ev("update_baud", b, 0, 0), E("complete_baud")>>)
  /\ baud_comp' = baud_comp + 1
  /\ UNCHANGED <<comp, mode_comp, tx_locked, fifo>>
  /\ KeepButRx

\* case APBA_CTRL_BAUD_ACK: the baud update if accepted, then complete()
RxBaudAck(m) ==
  /\ m.len >= HdrSize
  /\ m.type = "BAUD_ACK"
  /\ baud_comp < MaxDone
  /\ \E b \in AckBauds(m) : \E a \in AckFlags(m) :
       /\ baud' = IF a # 0 THEN b ELSE baud
       /\ Handled(m, (IF a # 0 THEN <<Ev("update_baud", b, 0, 0)>> ELSE <<>>)
                     \o <<E("complete_baud")>>)
  /\ baud_comp' = baud_comp + 1
  /\ UNCHANGED <<comp, mode_comp, tx_locked, fifo>>
  /\ KeepButRx

\* case APBA_CTRL_MODE_REQUEST: complete(&g_ctrl->mode_comp)
RxModeRequest(m) ==
  /\ m.len >= HdrSize
  /\ m.type = "MODE_REQUEST"
  /\ mode_comp < MaxDone
  /\ mode_comp' = mode_comp + 1
  /\ Handled(m, <<E("complete_mode")>>)
  /\ UNCHANGED <<comp, baud_comp, baud, tx_locked, fifo>>
  /\ KeepButRx

\* apba_handle_message(payload, len): all cases but the log indication
RxCtl(m) ==
  \/ RxShort(m) \/ RxUnknown(m) \/ RxIntReason(m) \/ RxPm(m)
  \/ RxLogRequest(m) \/ RxBaudAck(m) \/ RxModeRequest(m)

\* apba_handle_message(payload, len)
HandleMessage(m) == RxCtl(m) \/ RxLogInd(m)

(* ------------------------ apba_seq, the pin sequencer ------------------- *)
\* ctrl->gpios[index]: the pins apba_gpio_setup() stored, numbered from 1 here;
\* the entries it never wrote keep the 0 of the zeroed allocation
Gpios(index) == IF index < gpio_cnt THEN index + 1 ELSE 0

\* gpio_is_valid(): every number that is not negative names a pin
gpio_is_valid(gpio) == gpio >= 0

\* the pin indexes, values and delays (ms) a device tree sequence is made of
SeqIndexes == {0, 5, APBA_NUM_GPIOS}
SeqDelays == {0, 3}
Triples == SeqIndexes \X {0, 1} \X SeqDelays
\* apba_parse_seq(): a sequence is a whole number, at least one, of triples
Seqs == UNION {[1..n -> Triples] : n \in 1..MaxTriples}
\* the pin counts a device tree may give
GpioCnts == {1, ProbedGpios, APBA_NUM_GPIOS}

\* apba_wake_assert(assert): runs the wake_assert_seq or the wake_deassert_seq
\* the device tree gave, s
CallWakeAssert(t, assert, s, h) ==
  /\ At(t, "idle") /\ t \in Callers
  /\ th' = [th EXCEPT ![t] = [Enter(t, "wake", "seq") EXCEPT
                                !.name = IF assert THEN "wake_assert_seq"
                                                   ELSE "wake_deassert_seq",
                                !.seq = s]]
  /\ UNCHANGED shared
  /\ Gate(h)

\* the body of the loop of apba_seq() for the triple at position i
SeqEvents(tr, i) ==
  (IF tr[1] < APBA_NUM_GPIOS /\ gpio_is_valid(Gpios(tr[1]))
     THEN <<Ev("gpio_set_value", Gpios(tr[1]), tr[2], i)>> ELSE <<>>)
  \o (IF tr[3] # 0
        THEN <<Ev("usleep_range", tr[3] * 1000, tr[3] * 1000, i)>> ELSE <<>>)

\* one turn of the loop of apba_seq(); after the last triple the call returns
SeqStep(t) ==
  /\ At(t, "seq")
  /\ LET i == th[t].cnt + 1
     IN th' = [th EXCEPT ![t].cnt = i,
                         ![t].ev = @ \o SeqEvents(th[t].seq[i], i),
                         ![t].pc = IF i = Len(th[t].seq) THEN "done" ELSE "seq"]
  /\ KeepButTh

(* ------------------------------- apba_isr ------------------------------- *)
\* apba_isr(): the handler runs to its end in interrupt context; it forwards
\* the wake to the transport's power management or logs "int ignored"
Isr(t) ==
  /\ At(t, "idle") /\ t \in Callers
  /\ th' = [th EXCEPT ![t] =
              [Enter(t, "isr", "done") EXCEPT
                 !.ev = IF desired_on = 0 \/ ~mods_uart
                          THEN <<E("int_ignored")>>
                          ELSE <<E("pm_handle_wake_interrupt")>>]]
  /\ KeepButTh

(* --------------------------- specifications ---------------------------- *)
\* the calls a context can make, with flash images drawn from imgs
Call(t, h, imgs) ==
  \/ CallEnable(t, h)
  \/ CallDisable(t, h)
  \/ \E i \in MasterIntfs : \E m \in SlaveMasks : \E s \in SlaveStates :
       CallNotify(t, i, m, s, h)
  \/ \E n \in PartNames : \E f \in imgs : CallFlash(t, n, f, h)
  \/ \E n \in PartNames : CallErase(t, n, h)
  \/ \E v \in 0..1 : CallFlashEnable(t, v, h)

\* the calls of the flash pipeline, with the power calls that set its stage
CallStorage(t, h) ==
  \/ \E n \in PartNames : \E f \in Images : CallFlash(t, n, f, h)
  \/ \E n \in PartNames : CallErase(t, n, h)
  \/ CallEnable(t, h)
  \/ CallDisable(t, h)

StepPower(t) ==
  \/ EnableClk(t) \/ EnableSet(t) \/ EnableOn(t)
  \/ DisableChk(t) \/ DisableClr(t) \/ DisableClk(t) \/ DisableOff(t)

StepStorage(t) ==
  \/ FlashOff(t) \/ FlashEnter(t) \/ FlashMtd(t) \/ FlashCompare(t)
  \/ FlashErase(t) \/ FlashWrite(t) \/ FlashPut(t) \/ FlashLeave(t)
  \/ FlashChk(t) \/ FlashRestore(t)

Step(t) ==
  \/ StepPower(t)
  \/ NotifyChk(t) \/ NotifySched(t)
  \/ StepStorage(t)
  \/ FlashEnableSet(t)
  \/ Retire(t)

\* the image the contexts flash where the content of the image is not at issue
OneImage == {f \in Images : Len(f.pages) = 1 /\ f.pages[1] = 1 /\ f.tail = 0}

\* the driver as it is: no lock orders the contexts
Next ==
  \/ \E t \in Callers : Call(t, "race", OneImage)
  \/ WorkRun("race")
  \/ \E t \in Threads : Step(t)

\* the contexts start to interleave with the APBA off as apba_ctrl_probe()
\* leaves it, or on as a completed apba_enable() leaves it
RaceBase ==
  /\ mods_uart \in BOOLEAN
  /\ desired_on \in 0..1
  /\ clk = desired_on
  /\ powered = (desired_on = 1)
  /\ bus_vote = powered
  /\ uart_open = (powered /\ mods_uart)
  /\ uart_pm = uart_open
  /\ mode = 0
  /\ flash_dev_populated = FALSE
  /\ master_intf = 0
  /\ pinctrl = "default"
  /\ spi_flash = FALSE
  /\ flash_pins = FALSE
  /\ part = Erased
  /\ work_pending = FALSE
  /\ has_active = TRUE
  /\ gpio_cnt = ProbedGpios
  /\ ncalls = 0
  /\ rx = NoRx
  /\ th = [t \in Threads |-> Idle]

InitRace == RaceBase /\ ProtoInit

Spec == InitRace /\ [][Next]_vars

\* one call at a time: a call starts only when no other is in progress
NextSerial ==
  \/ Call("u1", "serial", OneImage)
  \/ WorkRun("serial")
  \/ UartRegister
  \/ \E t \in {"u1", Worker} : Step(t)

SpecSerial == Init /\ [][NextSerial]_vars

\* the flash pipeline, one call at a time, over every image
NextFlash ==
  \/ CallStorage("u1", "serial")
  \/ StepPower("u1")
  \/ StepStorage("u1")
  \/ Retire("u1")

SpecFlash == Init /\ [][NextFlash]_vars

\* the request / acknowledge protocol: two requesters, and the echoes and
\* acks the remote side may deliver at any time
ModeVals == {3, 260}

CallRequest(t, h) ==
  \/ \E v \in ModeVals : \E c \in Counts : CallMode(t, v, c, h)
  \/ \E v \in Bauds : \E c \in Counts : CallBaud(t, v, c, h)
  \/ CallLog(t, h)

StepMode(t) == ModeSend(t) \/ ModeWait(t) \/ ModeSet(t)
StepBaud(t) == BaudSend(t) \/ BaudLock(t) \/ BaudWait(t) \/ BaudUnlock(t)
StepLog(t) == LogSend(t) \/ LogWait(t) \/ LogOut(t)

StepRequest(t) ==
  \/ StepMode(t)
  \/ StepBaud(t)
  \/ StepLog(t)
  \/ Retire(t)

\* the echoes and acks as the remote side sends them
EchoMsgs ==
  {Msg("LOG_REQUEST", HdrSize, 0, 0, 0, 0, 0), Msg("MODE_REQUEST", HdrSize + 1, 1, 0, 0, 0, 0)}
    \cup {Msg("BAUD_ACK", BaudAckSize, 5, 0, 0, b, a) : b \in Bauds, a \in 0..1}

Rx == \E m \in EchoMsgs : RxLogRequest(m) \/ RxBaudAck(m) \/ RxModeRequest(m)

NextProto ==
  \/ \E t \in Callers : CallRequest(t, "race")
  \/ Rx
  \/ \E t \in Callers : StepRequest(t)

\* the log already holds what earlier LOG_IND messages left in it
InitProto ==
  /\ RaceBase
  /\ comp = 0
  /\ baud_comp = 0
  /\ mode_comp = 0
  /\ baud = 1
  /\ tx_locked = FALSE
  /\ fifo \in {<<>>, <<<<1, 0, LogBytes>>>>,
               <<<<1, 0, APBA_MSG_SIZE_MAX>>, <<2, 0, APBA_MSG_SIZE_MAX>>>>}

SpecProto == InitProto /\ [][NextProto]_vars

\* the APBA is on with its transport registered, as apba_enable() leaves it;
\* the master interface is set if a slave notification has come
InitOn ==
  /\ mods_uart = TRUE
  /\ desired_on = 1
  /\ clk = 1
  /\ powered = TRUE
  /\ bus_vote = TRUE
  /\ uart_open = TRUE
  /\ uart_pm = TRUE
  /\ mode = 0
  /\ flash_dev_populated = FALSE
  /\ master_intf \in {0} \cup MasterIntfs
  /\ pinctrl = "default"
  /\ spi_flash = FALSE
  /\ flash_pins = FALSE
  /\ part = Erased
  /\ work_pending = FALSE
  /\ has_active = TRUE
  /\ gpio_cnt = ProbedGpios
  /\ comp = 0
  /\ baud_comp = 0
  /\ mode_comp = 0
  /\ baud = 1
  /\ tx_locked = FALSE
  /\ ncalls = 0
  /\ rx = NoRx
  /\ th = [t \in Threads |-> Idle]

\* the buffers the receive path may hand over, apart from log indications:
\* shorter than a header, of no known type, with and without their fields
CtlMsgs ==
  {Msg(ty, HdrSize - 1, 0, 0, 0, 0, 0) : ty \in {"LOG_REQUEST", "BAUD_ACK", "MODE_REQUEST"}}
    \cup {Msg("UNKNOWN", n, 0, 0, 0, 0, 0) : n \in {HdrSize, BaudAckSize}}
    \cup {Msg("INT_REASON", IntReasonSize, 2, 0, r, 0, 0) : r \in 0..5}
    \cup {Msg("INT_REASON", HdrSize, 2, 0, 0, 0, 0)}
    \cup {Msg(ty, HdrSize, 0, 0, 0, 0, 0) : ty \in PmTypes}
    \cup EchoMsgs
    \cup {Msg("BAUD_ACK", HdrSize, 5, 0, 0, 0, 0)}

\* the receive path alone: any of the buffers, at any time
NextMsg == \E m \in CtlMsgs : RxCtl(m)

InitMsg == InitOn /\ fifo \in {<<>>, <<<<1, 0, LogBytes>>>>}

SpecMsg == InitMsg /\ [][NextMsg]_vars

\* the requests of one requester, one at a time, and the echoes and acks the
\* remote side may deliver at any time
NextRx ==
  \/ CallRequest("u1", "serial")
  \/ StepRequest("u1")
  \/ Rx

\* the log holds what one short log indication left in it
InitRx == InitOn /\ fifo = <<<<1, 0, LogBytes>>>>

SpecRx == InitRx /\ [][NextRx]_vars

\* the log indications with content tag: none, short and of the largest
\* payload, and three whose size field exceeds the bytes received: within
\* the largest payload, above it, and above the capacity of the log
LogMsgs(tag) ==
  {Msg("LOG_IND", HdrSize + n, n, tag, 0, 0, 0) : n \in {0, LogBytes, APBA_MSG_SIZE_MAX}}
    \cup {Msg("LOG_IND", HdrSize, LogBytes, tag, 0, 0, 0),
          Msg("LOG_IND", HdrSize + LogBytes, APBA_MSG_SIZE_MAX + LogBytes, tag, 0, 0, 0),
          Msg("LOG_IND", HdrSize + LogBytes, BigSize, tag, 0, 0, 0)}

\* n messages of the largest payload, as LOG_IND appends them
RECURSIVE FullRuns(_)
FullRuns(n) ==
  IF n = 0 THEN <<>> ELSE FullRuns(n - 1) \o <<<<1 + (n % 2), 0, APBA_MSG_SIZE_MAX>>>>

\* log reads of one requester, and the log indications and echoes
NextLog ==
  \/ CallLog("u1", "serial")
  \/ StepLog("u1")
  \/ Retire("u1")
  \/ \E m \in LogMsgs(1 + (rx.n % 2)) : RxLogInd(m)
  \/ \E m \in EchoMsgs : RxLogRequest(m)

\* the log is empty, or holds what earlier log indications left in it
InitLog ==
  /\ InitOn
  /\ fifo \in {<<>>, FullRuns((APBA_LOG_SIZE \div APBA_MSG_SIZE_MAX) - 1) \o <<<<1, 0, LogBytes>>>>,
               FullRuns(APBA_LOG_SIZE \div APBA_MSG_SIZE_MAX)}

SpecLog == InitLog /\ [][NextLog]_vars

\* the sequencer alone, under every pin count and wake sequence
NextSeq ==
  \/ \E t \in Callers, assert \in BOOLEAN, q \in Seqs : CallWakeAssert(t, assert, q, "serial")
  \/ \E t \in Callers : SeqStep(t)
  \/ \E t \in Callers : Retire(t)

\* the partition's contents and the optional pin state play no part in it
InitSeq ==
  /\ InitCtrl
  /\ gpio_cnt \in GpioCnts
  /\ part = [p \in 1..PartPages |-> 0]
  /\ has_active

SpecSeq == InitSeq /\ [][NextSeq]_vars

\* one call at a time, and the interrupt at any point of it
NextIrq ==
  \/ Call("u1", "serial", OneImage)
  \/ UartRegister
  \/ Step("u1")
  \/ Isr("u2")
  \/ Retire("u2")

SpecIrq == Init /\ [][NextIrq]_vars

\* the slave notifications alone, one at a time, and the delayed work
StepNotify(t) ==
  \/ StepPower(t)
  \/ NotifyChk(t) \/ NotifySched(t)
  \/ Retire(t)

NextNotify ==
  \/ \E i \in MasterIntfs : \E m \in SlaveMasks : \E st \in SlaveStates :
       CallNotify("u1", i, m, st, "serial")
  \/ WorkRun("after")
  \/ UartRegister
  \/ \E t \in {"u1", Worker} : StepNotify(t)

SpecNotify == Init /\ [][NextNotify]_vars

\* a mode write by one context while another enables and disables, and the
\* echo of the MODE_REQUEST as the remote side sends it
NextMode ==
  \/ \E v \in ModeVals : \E c \in Counts : CallMode("u1", v, c, "race")
  \/ CallEnable("u2", "race")
  \/ CallDisable("u2", "race")
  \/ RxModeRequest(Msg("MODE_REQUEST", HdrSize + 1, 1, 0, 0, 0, 0))
  \/ StepMode("u1")
  \/ StepPower("u2")
  \/ \E t \in Callers : Retire(t)

SpecMode == InitRace /\ [][NextMode]_vars
(* ------------------------------ properties ------------------------------ *)
\* the calls of one name a context has made, by their position in its record
Calls(t, name) == {i \in DOMAIN th[t].ev : th[t].ev[i][1] = name}
\* the context's call has returned, and was one of ops
Returned(t, ops) == th[t].pc = "done" /\ th[t].op \in ops
Pipeline == {"flash", "erase"}
\* the first-page compare has run: its buffer was asked for or its read made
Compared(t) == Calls(t, "read") \cup Calls(t, "kmalloc") # {}
\* the first-page read gave a whole page
ReadFull(t) == \E i \in Calls(t, "read") : th[t].ev[i][4] = PAGE_SIZE
ErasedOk(t) == \E i \in Calls(t, "erase") : th[t].ev[i][4] = 0
WrittenOk(t) == \E i \in Calls(t, "write") : th[t].ev[i][4] = 0
AfterErase == {"f_write", "f_put", "f_foff", "f_chk", "f_on", "done"}
AfterWrite == AfterErase \ {"f_write"}

\* C1: when erasePartition or flashPartition returns, whatever happened inside
\* it (partition not found, first page equal, erase failed, write failed, all
\* succeeded), the APBA is powered exactly if desired-on was set immediately
\* before the operation began
C1_Bracketing ==
  \A t \in Threads : Returned(t, Pipeline) => (powered <=> th[t].d0 # 0)

\* a flash that began with desired-on set, failed in its write, and has
\* returned with the APBA powered again
C1_Witness ==
  \E t \in Threads :
    /\ Returned(t, {"flash"})
    /\ th[t].d0 = 1
    /\ th[t].ret \in WriteErrs
    /\ powered

\* a context is between its apba_flash_on(true) and its apba_flash_on(false)
InFlashMode ==
  \E t \in Threads :
    /\ th[t].op \in Pipeline
    /\ th[t].pc \in {"f_mtd", "f_cmp", "f_erase", "f_write", "f_put", "f_foff"}

\* C2: in every state in which a flash or erase operation is between its
\* flash entry and its flash exit, the APBA is powered off and its transport
\* is closed, however the other contexts' calls interleave with it
C2_Exclusive == InFlashMode => (~powered /\ ~uart_open)

\* C3 as stated: a flashPartition that found the image's first 4096 bytes
\* equal to the partition's has issued no erase and no write and returns 0
C3_SkipAlways ==
  \A t \in Threads :
    (Returned(t, {"flash"}) /\ th[t].same) =>
      /\ Calls(t, "erase") = {}
      /\ Calls(t, "write") = {}
      /\ th[t].ret = 0

\* C3: once the first-page read has given a whole page and the image's first
\* 4096 bytes equal the partition's, flashPartition issues no erase and no
\* write and returns 0; and a flashPartition that returned 0 for an image of
\* at least a page leaves the partition's first page equal to the image's, so
\* that the next flashPartition of that image meets this condition
C3_SkipWhenRead ==
  \A t \in Threads :
    /\ (th[t].op = "flash" /\ th[t].same /\ ReadFull(t)) =>
         /\ th[t].cmp = 0
         /\ Calls(t, "erase") = {}
         /\ Calls(t, "write") = {}
         /\ th[t].pc = "done" => th[t].ret = 0
    /\ (Returned(t, {"flash"}) /\ th[t].ret = 0 /\ Len(th[t].fw.pages) >= 1) =>
         FirstPageSame(part, th[t].fw)

\* a flash of an image equal in its first page, read in full, has returned
C3_Witness ==
  \E t \in Threads :
    /\ Returned(t, {"flash"})
    /\ th[t].same
    /\ ReadFull(t)
    /\ th[t].ret = 0

\* the partition holds the image from offset 0 and is erased behind it
HoldsImage(p, f) ==
  \A i \in 1..PartPages :
    p[i] = IF i <= Len(f.pages) THEN PageWrite(0, f.pages[i])
           ELSE IF i = Len(f.pages) + 1 /\ f.tail = 1 THEN MaxByte + 1
           ELSE 0

\* C4: within one flashPartition at most one erase and one write are issued;
\* the erase is of offset 0 and the partition's size; a write is of the whole
\* image at offset 0 and follows an erase that succeeded; when the compare
\* reported a difference the erase is issued, and when it succeeded the write
\* is issued; and a flash that so returns 0 leaves the image in the partition
C4_EraseThenWrite ==
  \A t \in Threads :
    th[t].op = "flash" =>
      LET ev == th[t].ev
          er == Calls(t, "erase")
          wr == Calls(t, "write")
      IN /\ Cardinality(er) <= 1
         /\ Cardinality(wr) <= 1
         /\ \A i \in er : ev[i][2] = 0 /\ ev[i][3] = MtdSize
         /\ \A j \in wr :
              /\ ev[j][2] = 0
              /\ ev[j][3] = FwSize(th[t].fw)
              /\ \E i \in er : i < j /\ ev[i][4] = 0
         /\ (Compared(t) /\ th[t].cmp # 0 /\ th[t].pc \in AfterErase) => er # {}
         /\ (ErasedOk(t) /\ th[t].pc \in AfterWrite) => wr # {}
         /\ (th[t].pc = "done" /\ th[t].ret = 0 /\ th[t].cmp # 0) =>
              HoldsImage(part, th[t].fw)

\* a flash whose compare reported a difference has erased, written and
\* returned 0
C4_Witness ==
  \E t \in Threads :
    /\ Returned(t, {"flash"})
    /\ Compared(t) /\ th[t].cmp # 0
    /\ ErasedOk(t) /\ WrittenOk(t)
    /\ th[t].ret = 0

\* C5: a flashPartition or erasePartition of a name that is no partition
\* returns -ENODEV and has issued no read, erase or write; one whose erase
\* failed returns the erase's error and has issued no write; a flashPartition
\* whose write failed returns the write's error; and 0 is returned only when
\* the compare matched or the erase, and for a flash the write, succeeded
C5_StorageErrors ==
  \A t \in Threads :
    Returned(t, Pipeline) =>
      LET ev == th[t].ev IN
      /\ th[t].name \notin Partitions =>
           /\ th[t].ret = -ENODEV
           /\ ~Compared(t)
           /\ Calls(t, "erase") = {}
           /\ Calls(t, "write") = {}
      /\ \A i \in Calls(t, "erase") :
           ev[i][4] < 0 => (th[t].ret = ev[i][4] /\ Calls(t, "write") = {})
      /\ \A j \in Calls(t, "write") : ev[j][4] < 0 => th[t].ret = ev[j][4]
      /\ th[t].ret = 0 =>
           \/ th[t].op = "flash" /\ Compared(t) /\ th[t].cmp = 0
           \/ ErasedOk(t) /\ (th[t].op = "flash" => WrittenOk(t))

\* an erase of a name that is no partition has returned -ENODEV
C5_Witness ==
  \E t \in Threads :
    /\ Returned(t, {"erase"})
    /\ th[t].name \notin Partitions
    /\ th[t].ret = -ENODEV

\* C6: when a flashPartition or erasePartition returns, on whichever path, the
\* flash child device is not populated, the operation has run the flash-start
\* sequence once and after it the flash-end sequence exactly once, the flash
\* transport is deregistered and pin-control is in the default configuration
C6_FlashExit ==
  \A t \in Threads :
    Returned(t, Pipeline) =>
      /\ ~flash_dev_populated
      /\ Cardinality(Calls(t, "seq_flash_start")) = 1
      /\ Cardinality(Calls(t, "seq_flash_end")) = 1
      /\ \A i \in Calls(t, "seq_flash_start") :
           \A j \in Calls(t, "seq_flash_end") : i < j
      /\ ~spi_flash
      /\ ~flash_pins
      /\ pinctrl = "default"

\* a flash of a name that is no partition has returned, having removed the
\* child device it had populated
C6_Witness ==
  \E t \in Threads :
    /\ Returned(t, {"flash"})
    /\ th[t].name \notin Partitions
    /\ Calls(t, "depopulate") # {}

\* C7: an apba_disable() that finds desired-on false returns at once: it has
\* made no call (no companion-chip power-off, no detach, no clock operation,
\* no pin sequence) and every field of the controller state is as it was
C7_DisableIdempotent ==
  [][\A t \in Threads :
       (At(t, "d_chk") /\ desired_on = 0 /\ th'[t] # th[t]) =>
         /\ shared' = shared
         /\ th'[t].pc = "done"
         /\ th'[t].ret = 0
         /\ th'[t].ev = <<>>]_vars

\* a disable() called with the controller off has returned without a call
C7_Witness ==
  \E t \in Threads :
    /\ Returned(t, {"disable"})
    /\ th[t].ev = <<>>
    /\ desired_on = 0 /\ ~powered /\ clk = 0

\* C8: an enable whose clk_prepare_enable() fails returns that error, makes no
\* further call (no enable sequence, no pin driven, no transport opened) and
\* leaves every field of the controller state, desired-on included, as it was
C8_ClockFailure ==
  [][\A t \in Threads :
       (At(t, "e_clk") /\ th'[t].pc = "done") =>
         /\ th'[t].ret \in ClkErrs
         /\ th'[t].ev = th[t].ev \o <<Ev("clk_enable", 0, 0, th'[t].ret)>>
         /\ Calls(t, "seq_enable") = {} /\ Calls(t, "uart_open") = {}
         /\ shared' = shared]_vars

\* an enable() has failed in its clock while the controller was already on,
\* and desired-on is still set
C8_Witness ==
  \E t \in Threads :
    /\ Returned(t, {"enable"})
    /\ th[t].ret \in ClkErrs
    /\ th[t].ev = <<Ev("clk_enable", 0, 0, th[t].ret)>>
    /\ desired_on = 1 /\ powered

\* C9: whenever no call is in progress, the clock is held exactly once if
\* desired-on is true and not at all if desired-on is false
C9_ClockOnce == Quiet => (clk = desired_on)

Requests == {"mode", "baud", "log"}
Waits == {"wait_mode", "wait_baud", "wait_log"}
\* the request's wait ran into its timeout / was ended by the acknowledgement
TimedOut(t) == \E i \in DOMAIN th[t].ev : th[t].ev[i][1] \in Waits /\ th[t].ev[i][4] = 0
Completed(t) == \E i \in DOMAIN th[t].ev : th[t].ev[i][1] \in Waits /\ th[t].ev[i][4] = 1

\* C10: of two requests of the same kind made with the same arguments, one
\* whose wait timed out and one that was acknowledged, the results differ:
\* the caller can tell the timeout from the successful completion
C10_TimeoutDistinct ==
  \A t, u \in Callers :
    ( /\ Returned(t, Requests) /\ Returned(u, Requests)
      /\ th[t].op = th[u].op
      /\ th[t].val = th[u].val /\ th[t].cnt = th[u].cnt
      /\ TimedOut(t) /\ Completed(u) ) =>
      th[t].ret # th[u].ret

\* C11: every step of a mode, baud or log request that has not been
\* acknowledged (its send, its send's failure, its lock, its wait running
\* into the timeout, its return) leaves the stored mode, the transport's baud
\* rate and the content of the log buffer as they were
C11_TimeoutFrame ==
  [][\A t \in Callers :
       (th[t].op \in Requests /\ th'[t] # th[t] /\ ~Completed(t)) =>
         (mode' = mode /\ baud' = baud /\ fifo' = fifo)]_vars

\* a log read has timed out and returned, and the log still holds its bytes
C11_Witness ==
  \E t \in Callers :
    /\ Returned(t, {"log"})
    /\ TimedOut(t)
    /\ RunsLen(fifo) = LogBytes

\* C12: a mode request that was acknowledged and has returned sent exactly
\* one MODE_REQUEST, carrying the byte of its value; the stored mode is that
\* byte; and the acknowledgement it took was handled after it was sent, not
\* before
C12_ModeRoundTrip ==
  \A t \in Callers :
    (Returned(t, {"mode"}) /\ Completed(t)) =>
      /\ Cardinality(Calls(t, "send_mode")) = 1
      /\ \A i \in Calls(t, "send_mode") : th[t].ev[i][2] = th[t].val % 256
      /\ mode = th[t].val % 256
      /\ th[t].pend = 0

\* C13: an acknowledgement handled while no request of its kind waits is
\* absorbed: when a request is about to be sent, no completion of its kind
\* is pending, so its wait ends only by its own acknowledgement or timeout
C13_LateAbsorbed ==
  \A t \in Callers :
    /\ At(t, "m_send") => mode_comp = 0
    /\ At(t, "b_send") => baud_comp = 0
    /\ At(t, "l_send") => comp = 0

\* the message is a log indication that the buffer holds in full and that is
\* no larger than the protocol allows
WellFormedLog(m) ==
  /\ m.type = "LOG_IND"
  /\ m.size <= APBA_MSG_SIZE_MAX
  /\ m.len >= HdrSize + m.size

\* C14: the log never holds more than 16384 bytes; and right after a log
\* indication whose payload is within the protocol's maximum has been handled,
\* the newest bytes of the log are that payload, whole and in order, behind
\* the newest bytes of what the log held before
C14_LogBound ==
  /\ [](RunsLen(fifo) <= 16384)
  /\ [][(rx'.n = rx.n + 1 /\ WellFormedLog(rx'.msg)) =>
          LET m == rx'.msg
              kept == RunsLen(fifo') - m.size
          IN /\ kept >= 0
             /\ fifo' = RunsDrop(fifo, RunsLen(fifo) - kept)
                          \o RunsOf(<<<<m.tag, 0, m.size>>>>)]_vars

\* a log indication of the largest payload was taken by a full log, which is
\* full again and ends with that payload
C14_Witness ==
  /\ rx.msg.type = "LOG_IND"
  /\ rx.msg.size = APBA_MSG_SIZE_MAX
  /\ \E i \in DOMAIN rx.ev : rx.ev[i][1] = "kfifo_out"
  /\ RunsLen(fifo) = APBA_LOG_SIZE
  /\ fifo[Len(fifo)] = <<rx.msg.tag, 0, APBA_MSG_SIZE_MAX>>

\* the bytes the handler of the last message popped from the log
Popped(r) ==
  IF \E i \in DOMAIN r.ev : r.ev[i][1] = "kfifo_out"
    THEN r.ev[CHOOSE i \in DOMAIN r.ev : r.ev[i][1] = "kfifo_out"][4]
    ELSE 0

RunsJoin(a, b) ==
  IF a # <<>> /\ b # <<>> /\ a[Len(a)][1] = b[1][1]
        /\ a[Len(a)][2] + a[Len(a)][3] = b[1][2]
    THEN SubSeq(a, 1, Len(a) - 1)
           \o <<<<b[1][1], a[Len(a)][2], a[Len(a)][3] + b[1][3]>>>>
           \o Tail(b)
    ELSE a \o b

\* C16: the step of a log read that copies the log out returns exactly
\* min(4095, bytes buffered) bytes; they are the oldest bytes of the log in
\* order, and the log is left with exactly the bytes behind them
C16_DrainExact ==
  [][\A t \in Callers :
       (At(t, "l_out") /\ th'[t] # th[t]) =>
         /\ th'[t].ret = Min(PAGE_SIZE - 1, RunsLen(fifo))
         /\ RunsLen(th'[t].out) = th'[t].ret
         /\ RunsJoin(th'[t].out, fifo') = fifo]_vars

\* a read of a log that held more than a page returned 4095 bytes and left
\* the others
C16_Witness ==
  \E t \in Callers :
    /\ Returned(t, {"log"})
    /\ th[t].ret = PAGE_SIZE - 1
    /\ RunsLen(th[t].out) = PAGE_SIZE - 1
    /\ RunsLen(fifo) > 0

\* a step of the message handler: no context of a caller moves
HandlerStep == th' = th /\ ncalls' = ncalls

\* C17: handling a buffer shorter than the 4-byte header, or one whose type is
\* none of the known ones, fulfils no completion, leaves the log, the baud
\* rate and everything else of the controller as it was, and makes no call:
\* no power action, no attach notification
C17_Discard ==
  [][(HandlerStep /\ (rx'.msg.len < 4 \/ rx'.msg.type \notin KnownTypes)) =>
       (UNCHANGED shared /\ rx'.ev = <<>>)]_vars

\* a buffer of unknown type, long enough for a baud ack, was the last one
\* handled, and nothing was called for it
C17_Witness ==
  /\ rx.msg.type = "UNKNOWN"
  /\ rx.msg.len = BaudAckSize
  /\ rx.ev = <<>>
  /\ comp = 0 /\ baud_comp = 0 /\ mode_comp = 0

\* the buffer has its header but not all its type needs
Malformed(m) ==
  /\ m.len >= HdrSize
  /\ \/ m.type = "BAUD_ACK" /\ m.len < BaudAckSize
     \/ m.type = "INT_REASON" /\ m.len < IntReasonSize
     \/ m.type = "LOG_IND" /\ m.len < HdrSize + m.size

\* C18: handling a message whose buffer is shorter than its type needs
\* fulfils no completion, changes no baud rate and appends nothing to the log
C18_Malformed ==
  [][(HandlerStep /\ Malformed(rx'.msg)) =>
       UNCHANGED <<comp, baud_comp, mode_comp, baud, fifo>>]_vars

\* C19: handling a BAUD_ACK that has its baud and its accepted flag sets the
\* transport's baud rate to the baud of the ack if the flag is set and leaves
\* it as it was if the flag is clear; in both cases the baud completion is
\* fulfilled once, and no other completion is
C19_BaudAck ==
  [][(HandlerStep /\ rx'.msg.type = "BAUD_ACK" /\ rx'.msg.len >= BaudAckSize) =>
       /\ baud' = IF rx'.msg.accepted # 0 THEN rx'.msg.baud ELSE baud
       /\ baud_comp' = baud_comp + 1
       /\ Cardinality({i \in DOMAIN rx'.ev : rx'.ev[i][1] = "complete_baud"}) = 1
       /\ UNCHANGED <<comp, mode_comp>>]_vars

\* an accepted ack for another baud rate than the initial one was handled:
\* the transport has that baud rate and the completion is fulfilled
C19_Witness ==
  /\ rx.msg.type = "BAUD_ACK"
  /\ rx.msg.len >= BaudAckSize
  /\ rx.msg.accepted = 1
  /\ rx.msg.baud = 2
  /\ baud = 2
  /\ baud_comp = 1

\* C20: while a baud request that was handed to the transport has neither
\* seen its ack nor run into its timeout, the transmit path is locked
C20_TxLocked ==
  \A t \in Callers :
    ( /\ th[t].op = "baud"
      /\ \E i \in Calls(t, "send_baud") : th[t].ev[i][4] = 0
      /\ Calls(t, "wait_baud") = {} ) =>
      tx_locked

\* C21: a baud request that has returned took the transmit lock only after a
\* send that succeeded, released it as its last call whenever it took it
\* (after an ack, accepted or not, and after a timeout), and has left the
\* transmit path unlocked
C21_LockReleased ==
  \A t \in Callers :
    Returned(t, {"baud"}) =>
      /\ Cardinality(Calls(t, "lock_tx")) = Cardinality(Calls(t, "unlock_tx"))
      /\ Calls(t, "lock_tx") # {} =>
           /\ \E i \in Calls(t, "send_baud") :
                th[t].ev[i][4] = 0 /\ \A j \in Calls(t, "lock_tx") : i < j
           /\ th[t].ev[Len(th[t].ev)][1] = "unlock_tx"
      /\ (\A i \in Calls(t, "send_baud") : th[t].ev[i][4] # 0) =>
           Calls(t, "lock_tx") = {}
      /\ ~tx_locked

\* a baud request took the lock, timed out and has returned with the
\* transmit path unlocked
C21_Witness ==
  \E t \in Callers :
    /\ Returned(t, {"baud"})
    /\ TimedOut(t)
    /\ Calls(t, "lock_tx") # {}
    /\ ~tx_locked

\* the calls a sequence makes when only the triples whose index is one of the
\* configured pins set a pin
RECURSIVE PinSetOnly(_, _)
PinSetOnly(q, i) ==
  IF i > Len(q) THEN <<>>
  ELSE (IF q[i][1] < gpio_cnt
          THEN <<Ev("gpio_set_value", Gpios(q[i][1]), q[i][2], i)>> ELSE <<>>)
       \o (IF q[i][3] # 0
             THEN <<Ev("usleep_range", q[i][3] * 1000, q[i][3] * 1000, i)>> ELSE <<>>)
       \o PinSetOnly(q, i + 1)

\* C22: a run of a sequence takes its triples in their order; a triple sets its
\* pin only if its index is one of the configured pins, one whose index is not
\* drives no pin, and its nonzero delay and all later triples still happen
C22_Sequence ==
  \A t \in Callers :
    Returned(t, {"wake"}) =>
      /\ th[t].cnt = Len(th[t].seq)
      /\ th[t].ev = PinSetOnly(th[t].seq, 1)

\* the interrupt handler has just run in context t
IsrRan(t) == th[t].op # "isr" /\ th'[t].op = "isr"
Forwarded(t) == Calls(t, "pm_handle_wake_interrupt") # {}

\* C23: an interrupt forwards the wake exactly if the controller is desired-on
\* and a transport is registered; in every other state, and so whenever the
\* controller is not ON, it is ignored; and it changes no state either way
C23_Gating ==
  [][\A t \in Callers :
       IsrRan(t) =>
         /\ Forwarded(t)' <=> (desired_on # 0 /\ mods_uart)
         /\ ~powered => ~Forwarded(t)'
         /\ UNCHANGED shared]_vars

\* what the dispatch of reason r is to call
Dispatch(r) ==
  CASE r = APBA_INT_APBE_ON -> <<E("apbe_on")>>
    [] r = APBA_INT_APBE_RESET ->
         <<E("apbe_off"), Ev("msleep", APBE_RESET_DELAY, 0, 0), E("apbe_on")>>
    [] r = APBA_INT_APBE_CONNECTED -> <<Ev("schedule_attach", 1, 0, 0)>>
    [] r = APBA_INT_APBE_DISCONNECTED ->
         <<E("apbe_off"), Ev("schedule_attach", 0, 0, 0)>>
    [] OTHER -> <<>>
NoAttach(es) == SelectSeq(es, LAMBDA e : e[1] # "schedule_attach")
\* the handler has just handled an INT_REASON that has its reason
IntReasonStep ==
  HandlerStep /\ rx'.msg.type = "INT_REASON" /\ rx'.msg.len >= IntReasonSize

\* C24 as stated: an INT_REASON with reason r always makes the calls of r:
\* APBE_ON power on; APBE_RESET power off, the settle delay, power on;
\* APBE_CONNECTED attach(1); APBE_DISCONNECTED power off, attach(0); any other
\* reason none
C24_DispatchAlways ==
  [][IntReasonStep => rx'.ev = Dispatch(rx'.msg.reason)]_vars

\* C24, amended: with a master interface recorded an INT_REASON makes the calls
\* of its reason, in their order, the attach notification left out only when
\* its allocation fails; with none recorded it makes no call; the controller's
\* state is as it was
C24_Dispatch ==
  [][IntReasonStep =>
       /\ master_intf # 0 =>
            \/ rx'.ev = Dispatch(rx'.msg.reason)
            \/ rx'.ev = NoAttach(Dispatch(rx'.msg.reason))
       /\ master_intf = 0 => rx'.ev = <<>>
       /\ UNCHANGED shared]_vars

\* an APBE_DISCONNECTED was handled with a master interface recorded: the
\* companion chip was powered off and then the detach notification queued
C24_Witness ==
  /\ rx.msg.type = "INT_REASON"
  /\ rx.msg.len >= IntReasonSize
  /\ rx.msg.reason = APBA_INT_APBE_DISCONNECTED
  /\ master_intf # 0
  /\ rx.ev = <<E("apbe_off"), Ev("schedule_attach", 0, 0, 0)>>

\* the steps of a disable() in the order the claim gives them, with the bus
\* vote and the transport's power management where apba_on(false) has them
DisableOrder ==
  <<"apbe_off", "desired_on", "mod_detach", "clk_disable", "vote_off",
    "seq_disable", "pm_off", "uart_close">>
Rank(name) == CHOOSE k \in DOMAIN DisableOrder : DisableOrder[k] = name
Disabling == {"disable", "work"}

\* C25: a disable() that found desired-on set powers the companion chip off
\* first, then clears desired-on, then detaches the attachment, then stops the
\* clock, then runs the disable sequence, and closes the transport last: no
\* step is made before one that precedes it in this list
C25_DisableOrder ==
  \A t \in Threads :
    th[t].op \in Disabling =>
      /\ \A i, j \in DOMAIN th[t].ev :
           i < j => Rank(th[t].ev[i][1]) < Rank(th[t].ev[j][1])
      /\ th[t].pc \in {"d_clr", "d_clk", "d_off"} => th[t].ev[1][1] = "apbe_off"
      /\ th[t].pc = "d_clr" => desired_on # 0 /\ Len(th[t].ev) = 1
      /\ th[t].pc \in {"d_clk", "d_off"} =>
           /\ desired_on = 0
           /\ Calls(t, "desired_on") # {}
           /\ powered
      /\ th[t].pc = "d_off" => Calls(t, "clk_disable") # {}
      /\ (th[t].pc = "done" /\ th[t].ev # <<>>) =>
           /\ {"apbe_off", "desired_on", "clk_disable", "seq_disable"}
                \subseteq {th[t].ev[i][1] : i \in DOMAIN th[t].ev}
           /\ Calls(t, "uart_close") # {} =>
                th[t].ev[Len(th[t].ev)][1] = "uart_close"
           /\ desired_on = 0 /\ ~powered

\* a disable() of an enabled controller with its transport registered has
\* returned, having made all eight steps
C25_Witness ==
  \E t \in Threads :
    /\ Returned(t, Disabling)
    /\ Len(th[t].ev) = Len(DisableOrder)
    /\ ~powered /\ ~uart_open

\* every call of name a that context t made came before every call of name b
Before(t, a, b) == \A i \in Calls(t, a) : \A j \in Calls(t, b) : i < j
FlashEntering == Pipeline \cup {"flash_enable"}

\* C26: every entry into flash mode, by an erase, a flash or the flash_enable
\* control, first drives the controller OFF whatever desired-on is, and then
\* switches pin-control to the flashing configuration, runs the flash-start
\* sequence, registers the flash transport and probes the child, in this order
C26_FlashEntry ==
  /\ flash_pins => ~powered
  /\ \A t \in Threads :
       (th[t].op \in FlashEntering /\ Calls(t, "seq_flash_start") # {}) =>
         /\ Calls(t, "seq_disable") # {}
         /\ Before(t, "seq_disable", "pinctrl_active")
         /\ Before(t, "seq_disable", "seq_flash_start")
         /\ Before(t, "pinctrl_active", "seq_flash_start")
         /\ Before(t, "seq_flash_start", "spi_register")
         /\ Before(t, "spi_register", "populate")
         /\ Calls(t, "spi_register") # {} /\ Calls(t, "populate") # {}

\* C27: the exit from flash mode removes the child, then deregisters the flash
\* transport, then runs the flash-end sequence, then returns pin-control to
\* the default: the entry steps in exactly the opposite order; the controller
\* is turned ON only after all of them, and only if desired-on is set
C27_FlashExit ==
  \A t \in Threads :
    (th[t].op \in FlashEntering /\ Calls(t, "pinctrl_default") # {}) =>
      /\ Before(t, "depopulate", "spi_deregister")
      /\ Before(t, "spi_deregister", "seq_flash_end")
      /\ Before(t, "seq_flash_end", "pinctrl_default")
      /\ Calls(t, "spi_deregister") # {} /\ Calls(t, "seq_flash_end") # {}
      /\ Before(t, "pinctrl_default", "seq_enable")
      /\ Calls(t, "seq_enable") # {} => th[t].d0 # 0

\* a context is inside a power transition: an enable() that has taken its
\* clock reference, or a disable() past its guard, has not yet run apba_on()
InTransition(t) == th[t].pc \in {"e_set", "e_on", "d_clr", "d_clk", "d_off"}

\* C28: at most one power transition is in progress at any time, whichever
\* contexts make them: no two interleave their updates of desired-on, the
\* clock and the pin sequences
C28_Serialized == Cardinality({t \in Threads : InTransition(t)}) <= 1

\* context t, inside a slave notification, makes this step
NotifyStep(t) == th[t].op = "notify" /\ th[t].pc # "done" /\ th'[t] # th[t]
ForApbe(t) == th[t].name = "apbe"

\* C29: a DISABLED notification for the APBE disables nothing itself: it
\* records the master interface and schedules the deferred disable, and
\* disable() runs later in the work context; an ENABLED notification runs
\* enable() in the notifier's own call; one for another slave changes nothing
C29_Notify ==
  [][/\ \A t \in Callers :
          NotifyStep(t) =>
            /\ ~ForApbe(t) =>
                 UNCHANGED shared /\ th'[t].pc = "done" /\ th'[t].ev = <<>>
            /\ (ForApbe(t) /\ th[t].arg = "disabled") =>
                 /\ UNCHANGED <<desired_on, clk, powerVars, flashVars>>
                 /\ th[t].pc = "n_chk" =>
                      /\ master_intf' = th[t].val
                      /\ work_pending' = work_pending
                      /\ th'[t].pc = "n_sched"
                 /\ th[t].pc = "n_sched" =>
                      /\ work_pending'
                      /\ th'[t].pc = "done"
                      /\ th'[t].ev = <<E("schedule_disable")>>
            /\ (ForApbe(t) /\ th[t].arg = "enabled") =>
                 /\ th[t].pc = "n_chk" =>
                      master_intf' = th[t].val /\ th'[t].pc = "e_clk"
                 /\ (th'[t].pc = "done" /\ th'[t].ret = 0) =>
                      /\ desired_on' = 1 /\ powered'
                      /\ th'[t].ev[Len(th'[t].ev)][1] \in {"seq_enable", "pm_on"}
     /\ (desired_on # 0 /\ desired_on' = 0) =>
          \E t \in Threads : th[t].op \in Disabling /\ th'[t] # th[t]
     /\ (th[Worker].op # "work" /\ th'[Worker].op = "work") =>
          work_pending /\ ~work_pending']_vars

\* a DISABLED notification for the APBE has returned with the controller
\* still on and the disable scheduled
C29_Witness ==
  \E t \in Callers :
    /\ Returned(t, {"notify"})
    /\ th[t].name = "apbe" /\ th[t].arg = "disabled"
    /\ th[t].ev = <<E("schedule_disable")>>
    /\ work_pending
    /\ desired_on = 1 /\ powered /\ clk > 0
    /\ master_intf = th[t].val

\* the most recent notification was one for the APBE, it has returned, and no
\* deferred work is scheduled or running
Settled(t) ==
  /\ Returned(t, {"notify"})
  /\ th[t].name = "apbe"
  /\ th[t].ret = 0
  /\ ~work_pending
  /\ th[Worker].pc \in {"idle", "done"}

\* C30: once the notifications have stopped and the deferred work has run,
\* desired-on is what the most recent APBE notification asked for; a DISABLED
\* followed by an ENABLED before the deferred disable ran leaves the
\* controller ON
C30_LastWins ==
  \A t \in Callers :
    Settled(t) =>
      /\ th[t].arg = "enabled" => (desired_on = 1 /\ powered)
      /\ th[t].arg = "disabled" => (desired_on = 0 /\ ~powered)

\* C31: whenever the APBA is powered off the stored mode is 0, and the mode
\* leaves 0 only while the controller is ON: no interleaving of a mode
\* request with a disable() leaves a mode other than 0 stored with the
\* controller OFF
C31_ModeZeroOff == ~powered => mode = 0

====
